---- MODULE Spec2Model ----
(***************************************************************************)
(* Model of the kill-switch retirement core (ks-killer):                   *)
(*   findKSDeclaration        - the Declaration Locator                    *)
(*   replaceFunCallWithFalse  - the Reference Replacement Engine           *)
(*                                                                         *)
(* Conventions.                                                            *)
(*  - An optional JavaScript value is a sequence: <<>> is undefined and    *)
(*    <<v>> is the value v.                                                *)
(*  - Source text is a TLA+ string; string literals of the analysed        *)
(*    program are written with single quotes ('...').                      *)
(*  - Time is counted in whole days since the epoch: one unit is           *)
(*    1000 * 60 * 60 * 24 ms.  A Date is a record [nan, t]; nan marks the  *)
(*    Invalid Date.                                                        *)
(***************************************************************************)
EXTENDS Integers, Sequences, FiniteSets, TLC

VARIABLES
    now,          \* the host clock (Date.now()), in days
    defaultDate,  \* module constant computed when the module is loaded
    project,      \* the loaded project: a sequence of source files
    options,      \* the options record the driver calls findKSDeclaration with
    result,       \* what the last findKSDeclaration call returned
    threshold,    \* the thresholdDate the last call compared against
    callTime,     \* the clock at the last findKSDeclaration call
    diagnostics,  \* console.error lines of the last call
    raised,       \* the last call ended with an exception
    called,       \* findKSDeclaration has been called at least once
    nodes,        \* the syntax tree nodes of the project under replacement
    outcome,      \* what the last replaceFunCallWithFalse call returned
    before,       \* nodes as they were when the last pass started
    passes        \* number of replaceFunCallWithFalse calls so far

findVars == <<now, defaultDate, project, options, result, threshold,
              callTime, diagnostics, raised, called>>
replVars == <<nodes, outcome, before, passes>>
vars == <<findVars, replVars>>

(***************************************************************************)
(* Bounds of the model                                                     *)
(***************************************************************************)
MaxDecls == 2     \* top-level functions in the varying source file
MaxTicks == 2     \* clock steps after the module was loaded
MaxStmts == 2     \* statements of the project that mention the declaration
MaxPasses == 2    \* replacement passes over the same declaration

(***************************************************************************)
(* Optional values and dates                                               *)
(***************************************************************************)
None == <<>>
Some(v) == <<v>>
IsSome(o) == o # <<>>
Val(o) == o[1]

InvalidDate == [nan |-> TRUE, t |-> 0]
Day(n) == [nan |-> FALSE, t |-> n]

\* JavaScript's a < b on two Date objects: false when either is NaN.
DateLess(a, b) == ~a.nan /\ ~b.nan /\ a.t < b.t

\* Truthiness of an optional string: undefined and "" are falsy.
Truthy(o) == IsSome(o) /\ Val(o) # ""

(***************************************************************************)
(* Program constants                                                       *)
(***************************************************************************)
KS_ACTIVATED_METHOD == "isActivated"

DefaultDays == 180

\* new Date(Date.now() - 1000 * 60 * 60 * 24 * 180), evaluated at clock n
DefaultDateAt(n) == Day(n - DefaultDays)

(***************************************************************************)
(* Host and library functions                                              *)
(***************************************************************************)
Min(a, b) == IF a < b THEN a ELSE b
Max(a, b) == IF a < b THEN b ELSE a

\* String.prototype.substring(start, end): both indices are clamped to
\* [0, length] and swapped when start > end.
Substring(s, start, end) ==
    LET a == Min(Max(start, 0), Len(s))
        b == Min(Max(end, 0), Len(s))
        lo == Min(a, b)
        hi == Max(a, b)
    IN  SubSeq(s, lo + 1, hi)

HexDigits == {"0", "1", "2", "3", "4", "5", "6", "7", "8", "9",
              "a", "b", "c", "d", "e", "f", "A", "B", "C", "D", "E", "F"}

NIL_UUID == "00000000-0000-0000-0000-000000000000"

\* validate() of the uuid package: the RFC 4122 pattern, case-insensitive,
\* /^(?:[0-9a-f]{8}-[0-9a-f]{4}-[1-5][0-9a-f]{3}-[89ab][0-9a-f]{3}-[0-9a-f]{12}|NIL)$/i
uuidValidate(s) ==
    /\ Len(s) = Len(NIL_UUID)
    /\ \/ s = NIL_UUID
       \/ /\ \A i \in {9, 14, 19, 24} : SubSeq(s, i, i) = "-"
          /\ \A i \in (1..Len(NIL_UUID)) \ {9, 14, 19, 24} : SubSeq(s, i, i) \in HexDigits
          /\ SubSeq(s, 15, 15) \in {"1", "2", "3", "4", "5"}
          /\ SubSeq(s, 20, 20) \in {"8", "9", "a", "b", "A", "B"}

\* Date.parse of the host on the texts that occur in the modelled projects.
\* The legacy parser skips the quote characters of a literal's text, so the
\* text of a string literal holding a date parses like the date itself.
DateParse(text) ==
    CASE text \in {"'2023-01-01'", "2023-01-01"} -> Day(19358)
      [] text \in {"'2024-01-01'", "2024-01-01"} -> Day(19723)
      [] text \in {"'2030-01-01'", "2030-01-01"} -> Day(21915)
      [] OTHER -> InvalidDate

\* /killswitch/i.test(name) on the import names that occur in the projects
MatchesKillswitch(name) == name \in {"_SPKillSwitch", "KillSwitches", "isKillswitchOn"}

(***************************************************************************)
(* Syntax of a top-level function declaration                              *)
(*                                                                         *)
(* returns  : the ReturnStatement descendants in document order, each with *)
(*            the place it stands in (the function's own body, a branch of *)
(*            it, or a function nested in it) and its expression.          *)
(* comments : the comment tokens attached to the declaration.              *)
(***************************************************************************)
NoCallee == [kind |-> "None", name |-> ""]
Member(name) == [kind |-> "PropertyAccessExpression", name |-> name]
Ident(name) == [kind |-> "Identifier", name |-> name]

Call(callee, args) == [kind |-> "CallExpression", callee |-> callee, args |-> args]
FalseLiteral == [kind |-> "FalseKeyword", callee |-> NoCallee, args |-> <<>>]

Return(where, expr) == [where |-> where, expr |-> expr]
Fun(name, returns, comments) ==
    [name |-> name, returns |-> returns, comments |-> comments]

GUID_A == "'3fa85f64-5717-4562-b3fc-2c963f66afa6'"
GUID_B == "'9B2C1A3E-7D4F-4A6B-8C1D-0E2F3A4B5C6D'"
Activated(args) == Call(Member(KS_ACTIVATED_METHOD), args)

\* return KS.isActivated('3fa8...', '2023-01-01');
fArgDate == Fun("fArgDate", <<Return("body", Activated(<<GUID_A, "'2023-01-01'">>))>>, <<>>)
\* // graduates 2023-01-01      return KS.isActivated('9B2C...');
fCommentDate ==
    Fun("fCommentDate", <<Return("body", Activated(<<GUID_B>>))>>, <<"graduates", "2023-01-01">>)
\* // 2023-01-01                return KS.isActivated('3fa8...', 'soon');
fBadArgDate ==
    Fun("fBadArgDate", <<Return("body", Activated(<<GUID_A, "'soon'">>))>>, <<"2023-01-01">>)
\* // owner: core team          return KS.isActivated('3fa8...');
fNoDate == Fun("fNoDate", <<Return("body", Activated(<<GUID_A>>))>>, <<"owner:", "core">>)
\* return KS.isActivated('9B2C...', '2024-01-01');
fNewYear == Fun("fNewYear", <<Return("body", Activated(<<GUID_B, "'2024-01-01'">>))>>, <<>>)
\* return KS.isActivated('3fa8...', '2030-01-01');
fFuture == Fun("fFuture", <<Return("body", Activated(<<GUID_A, "'2030-01-01'">>))>>, <<>>)
\* return KS.isActivated('my-flag', '2023-01-01');
fNamed == Fun("fNamed", <<Return("body", Activated(<<"'my-flag'", "'2023-01-01'">>))>>, <<>>)
\* return KS.isEnabled('3fa8...', '2023-01-01');
fOtherMethod ==
    Fun("fOtherMethod", <<Return("body", Call(Member("isEnabled"), <<GUID_A, "'2023-01-01'">>))>>, <<>>)
\* return isActivated('3fa8...', '2023-01-01');
fBareCall ==
    Fun("fBareCall", <<Return("body", Call(Ident(KS_ACTIVATED_METHOD), <<GUID_A, "'2023-01-01'">>))>>, <<>>)
\* no return statement at all
fNoReturn == Fun("fNoReturn", <<>>, <<>>)
\* return false;
fReturnFalse == Fun("fReturnFalse", <<Return("body", FalseLiteral)>>, <<>>)
\* if (beta) { return KS.isActivated('3fa8...', '2023-01-01'); } return false;
fBranchFirst ==
    Fun("fBranchFirst",
        <<Return("branch", Activated(<<GUID_A, "'2023-01-01'">>)), Return("body", FalseLiteral)>>, <<>>)
\* const inner = () => { return KS.isActivated('3fa8...', '2023-01-01'); }; return false;
fNested ==
    Fun("fNested",
        <<Return("nested", Activated(<<GUID_A, "'2023-01-01'">>)), Return("body", FalseLiteral)>>, <<>>)
\* if (beta) { return false; } return KS.isActivated('3fa8...', '2023-01-01');
fSecondMatch ==
    Fun("fSecondMatch",
        <<Return("branch", FalseLiteral), Return("body", Activated(<<GUID_A, "'2023-01-01'">>))>>, <<>>)
\* return KS.isActivated();
fNoArgs == Fun("fNoArgs", <<Return("body", Activated(<<>>))>>, <<"2023-01-01">>)
\* return KS.isActivated(ID, '2023-01-01');
fIdentArg == Fun("fIdentArg", <<Return("body", Activated(<<"ID", "'2023-01-01'">>))>>, <<>>)
\* return KS.isActivated('', '2023-01-01');
fEmptyId == Fun("fEmptyId", <<Return("body", Activated(<<"''", "'2023-01-01'">>))>>, <<>>)

\* The declarations the varying source file is built from
VaryingDecls == {fArgDate, fCommentDate, fNoDate, fNamed, fBranchFirst, fEmptyId}

\* The declarations of the fixed source files
FlagsDecls == <<fBadArgDate, fNewYear, fFuture, fOtherMethod, fBareCall, fNoReturn,
                fReturnFalse, fNested, fSecondMatch, fNoArgs, fIdentArg>>

SeqsUpTo(S, n) == UNION {[1..k -> S] : k \in 0..n}

(***************************************************************************)
(* Source files and the project                                            *)
(*                                                                         *)
(* importedNames : names of the file's ImportSpecifier descendants         *)
(* mentions      : the file's text holds ".isActivated" outside the return *)
(*                 statements of its functions (a comment, a helper)       *)
(***************************************************************************)
SourceFile(path, importedNames, mentions, funDecls) ==
    [path |-> path, importedNames |-> importedNames, mentions |-> mentions,
     funDecls |-> funDecls]

KsFile(funDecls) == SourceFile("src/ks.ts", <<"_SPKillSwitch">>, FALSE, funDecls)
FlagsFile == SourceFile("src/flags.ts", <<"Logger", "KillSwitches">>, FALSE, FlagsDecls)
\* a wrapper in a file that imports no kill switch symbol
PlainFile == SourceFile("src/plain.ts", <<"Logger">>, FALSE, <<fArgDate>>)
\* a file that imports a kill switch symbol and mentions the method only in a
\* comment: the scan keeps it and finds no declaration in it
DocFile == SourceFile("src/doc.ts", <<"isKillswitchOn">>, TRUE, <<fReturnFalse>>)

Projects == {<<KsFile(ds), FlagsFile, PlainFile, DocFile>> : ds \in SeqsUpTo(VaryingDecls, MaxDecls)}

\* f.getText().includes(".isActivated")
TextIncludesMethod(f) ==
    \/ f.mentions
    \/ \E i \in 1..Len(f.funDecls) : \E j \in 1..Len(f.funDecls[i].returns) :
          f.funDecls[i].returns[j].expr.callee = Member(KS_ACTIVATED_METHOD)

(***************************************************************************)
(* findKSDeclaration                                                       *)
(***************************************************************************)
Options(targetId, ksFilePath, thresholdDate) ==
    [targetId |-> targetId, ksFilePath |-> ksFilePath, thresholdDate |-> thresholdDate]

EmptyResult == [ksDecls |-> <<>>, guids |-> <<>>]

\* const { ..., thresholdDate = defaultDate } = options
ThresholdOf(opts, dflt) ==
    IF IsSome(opts.thresholdDate) THEN Val(opts.thresholdDate) ELSE dflt

\* project.getSourceFileOrThrow(path): the indexes of the files at that path
FilesAt(proj, path) == {i \in 1..Len(proj) : proj[i].path = path}

\* the filter of the whole-project scan
HasKsImported(f) == \E i \in 1..Len(f.importedNames) : MatchesKillswitch(f.importedNames[i])
KeptByScan(f) == HasKsImported(f) /\ TextIncludesMethod(f)

RECURSIVE FilterFiles(_, _)
FilterFiles(proj, i) ==
    IF i > Len(proj) THEN <<>>
    ELSE (IF KeptByScan(proj[i]) THEN <<i>> ELSE <<>>) \o FilterFiles(proj, i + 1)

\* Mutant: getSourceFileOrThrow outside any try/catch
UnresolvedHint_Throws(path) == [ksFiles |-> <<>>, errors |-> <<>>, raised |-> TRUE]

\* What the try/catch around getSourceFileOrThrow leaves behind when the
\* path does not resolve: nothing pushed, one console.error line.
UnresolvedHint(path) ==
    [ksFiles |-> <<>>, errors |-> <<"Invalid KS file path: " \o path>>, raised |-> FALSE]

\* ksFiles, as indexes into the project, and what was logged on the way
SelectFiles(proj, ksFilePath) ==
    IF Truthy(ksFilePath)
    THEN IF FilesAt(proj, Val(ksFilePath)) # {}
         THEN [ksFiles |-> <<CHOOSE i \in FilesAt(proj, Val(ksFilePath)) : TRUE>>,
               errors |-> <<>>, raised |-> FALSE]
         ELSE UnresolvedHint(Val(ksFilePath))
    ELSE [ksFiles |-> FilterFiles(proj, 1), errors |-> <<>>, raised |-> FALSE]

\* funDecl.getFirstDescendantByKind(SyntaxKind.ReturnStatement)
returnStatement(funDecl) ==
    IF funDecl.returns = <<>> THEN None ELSE Some(Head(funDecl.returns))

\* returnStatement?.getExpressionIfKind(SyntaxKind.CallExpression)
callExp(funDecl) ==
    LET r == returnStatement(funDecl)
    IN  IF IsSome(r) /\ Val(r).expr.kind = "CallExpression" THEN Some(Val(r).expr) ELSE None

\* callExp?.getExpressionIfKind(SyntaxKind.PropertyAccessExpression)
accessExp(funDecl) ==
    LET c == callExp(funDecl)
    IN  IF IsSome(c) /\ Val(c).callee.kind = "PropertyAccessExpression"
        THEN Some(Val(c).callee) ELSE None

\* the negation of the "wrong structure, skip" test
StructureMatches(funDecl) ==
    LET a == accessExp(funDecl)
    IN  IsSome(a) /\ Val(a).name = KS_ACTIVATED_METHOD

\* callExp?.getArguments()[n]?.getText(), n counted from 1
Argument(funDecl, n) ==
    LET c == callExp(funDecl)
    IN  IF IsSome(c) /\ Len(Val(c).args) >= n THEN Some(Val(c).args[n]) ELSE None

firstArgument(funDecl) == Argument(funDecl, 1)

\* firstArgument?.substring(1, firstArgument.length - 1)
guid(funDecl) ==
    LET a == firstArgument(funDecl)
    IN  IF IsSome(a) THEN Some(Substring(Val(a), 1, Len(Val(a)) - 1)) ELSE None

secondArg(funDecl) == Argument(funDecl, 2)

\* extractDateFromComments: the first comment token that parses as a date
RECURSIVE FirstDate(_)
FirstDate(tokens) ==
    IF tokens = <<>> THEN None
    ELSE IF ~DateParse(Head(tokens)).nan THEN Some(Head(tokens))
    ELSE FirstDate(Tail(tokens))

extractDateFromComments(funDecl) == FirstDate(funDecl.comments)

\* secondArg && !isNaN(Date.parse(secondArg)) ? secondArg : extractDateFromComments(funDecl)
dateString(funDecl) ==
    LET a == secondArg(funDecl)
    IN  IF Truthy(a) /\ ~DateParse(Val(a)).nan THEN a ELSE extractDateFromComments(funDecl)

\* new Date(dateString)
parsedDate(funDecl) == DateParse(Val(dateString(funDecl)))

\* Mutant: targeted mode that also validates the identifier's format
TargetMatches_Validated(funDecl, targetId) ==
    LET a == Argument(funDecl, 1)
        g == IF IsSome(a) THEN Substring(Val(a), 1, Len(Val(a)) - 1) ELSE ""
    IN  Some(g) = targetId /\ uuidValidate(g)

\* if (targetId) { guid === targetId }
TargetMatches(funDecl, targetId) == guid(funDecl) = targetId

\* Mutant: a date equal to the threshold is accepted (<= for <)
ScanMatches_NotStrict(funDecl, thresholdDate) ==
    /\ Truthy(guid(funDecl))
    /\ uuidValidate(Val(guid(funDecl)))
    /\ Truthy(dateString(funDecl))
    /\ ~DateLess(thresholdDate, parsedDate(funDecl))
    /\ ~parsedDate(funDecl).nan

\* else if (guid && uuidValidate(guid)) { ... parsedDate < thresholdDate }
ScanMatches(funDecl, thresholdDate) ==
    /\ Truthy(guid(funDecl))
    /\ uuidValidate(Val(guid(funDecl)))
    /\ Truthy(dateString(funDecl))
    /\ DateLess(parsedDate(funDecl), thresholdDate)

\* the branch on targetId
Selected(funDecl, targetId, thresholdDate) ==
    IF Truthy(targetId) THEN TargetMatches(funDecl, targetId)
    ELSE ScanMatches(funDecl, thresholdDate)

\* Mutant: the identifier is pushed as written in the source, quotes included
Push_RawText(res, handle, g) ==
    [ksDecls |-> Append(res.ksDecls, handle), guids |-> Append(res.guids, "'" \o g \o "'")]

\* result.ksDecls.push(funDecl); result.guids.push(guid)
Push(res, handle, g) ==
    [ksDecls |-> Append(res.ksDecls, handle), guids |-> Append(res.guids, g)]

\* the body of funDecls.forEach; a declaration handle is <<file, position>>
Visit(res, proj, fi, di, targetId, thresholdDate) ==
    LET funDecl == proj[fi].funDecls[di]
    IN  IF ~StructureMatches(funDecl) THEN res
        ELSE IF Selected(funDecl, targetId, thresholdDate)
             THEN Push(res, <<fi, di>>, Val(guid(funDecl)))
             ELSE res

RECURSIVE VisitDecls(_, _, _, _, _, _)
VisitDecls(res, proj, fi, di, targetId, thresholdDate) ==
    IF di > Len(proj[fi].funDecls) THEN res
    ELSE VisitDecls(Visit(res, proj, fi, di, targetId, thresholdDate),
                    proj, fi, di + 1, targetId, thresholdDate)

RECURSIVE VisitFiles(_, _, _, _, _)
VisitFiles(res, proj, ksFiles, targetId, thresholdDate) ==
    IF ksFiles = <<>> THEN res
    ELSE VisitFiles(VisitDecls(res, proj, Head(ksFiles), 1, targetId, thresholdDate),
                    proj, Tail(ksFiles), targetId, thresholdDate)

findKSDeclaration(proj, opts, dflt) ==
    LET sel == SelectFiles(proj, opts.ksFilePath)
        thresholdDate == ThresholdOf(opts, dflt)
    IN  [result |-> IF sel.raised THEN EmptyResult
                    ELSE VisitFiles(EmptyResult, proj, sel.ksFiles, opts.targetId, thresholdDate),
         ksFiles |-> sel.ksFiles,
         diagnostics |-> sel.errors,
         raised |-> sel.raised,
         threshold |-> thresholdDate]

(***************************************************************************)
(* Inputs of the discovery calls                                           *)
(***************************************************************************)
TargetIds == {None, Some(""), Some("3fa85f64-5717-4562-b3fc-2c963f66afa6"), Some("my-flag")}
FileHints == {None, Some(""), Some("src/ks.ts"), Some("src/plain.ts"), Some("src/missing.ts")}
Thresholds == {None, Some(Day(19358)), Some(Day(21915))}
AllOptions == {Options(t, h, d) : t \in TargetIds, h \in FileHints, d \in Thresholds}
\* the module is loaded on 2024-06-29, so that defaultDate is 2024-01-01
LoadTime == 19723 + DefaultDays
\* the clock moves in steps of 90 days
ClockStep == DefaultDays \div 2

(***************************************************************************)
(* Syntax trees of the statements that mention the declaration             *)
(*                                                                         *)
(* A node is [kind, op, parent, role, text, ref, file, live]:              *)
(*   parent : index of the parent node, 0 for a statement of the file      *)
(*   role   : which child of its parent the node is                        *)
(*   ref    : the node is an identifier bound to the declaration           *)
(*   live   : the node has not been forgotten by a replacement             *)
(***************************************************************************)
N(kind, op, up, role, text, ref) ==
    [kind |-> kind, op |-> op, parent |-> up, role |-> role, text |-> text, ref |-> ref]

Wrapper(up, role) == N("Identifier", "", up, role, "wrapper", TRUE)
Callee(up, name) == N("Identifier", "", up, "callee", name, FALSE)
CallNode(up, role) == N("CallExpression", "", up, role, "", FALSE)
Prefix(op, up, role) == N("PrefixUnaryExpression", op, up, role, "", FALSE)
Stmt(kind, text) == N(kind, "", 0, "statement", text, FALSE)

\* function wrapper() { return KS.isActivated(); }
tDecl == <<Stmt("FunctionDeclaration", ""), Wrapper(1, "name")>>
\* const f = wrapper;
tAssign == <<Stmt("VariableDeclaration", "f"), Wrapper(1, "initializer")>>
\* wrapper();
tCall == <<Stmt("ExpressionStatement", ""), CallNode(1, "expression"), Wrapper(2, "callee")>>
\* const x = wrapper();
tBind == <<Stmt("VariableDeclaration", "x"), CallNode(1, "initializer"), Wrapper(2, "callee")>>
\* if (!wrapper()) { doWork(); }
tIfNot ==
    <<Stmt("IfStatement", ""), Prefix("!", 1, "expression"), CallNode(2, "operand"),
      Wrapper(3, "callee")>>
\* const n = +wrapper();
tPlus ==
    <<Stmt("VariableDeclaration", "n"), Prefix("+", 1, "initializer"), CallNode(2, "operand"),
      Wrapper(3, "callee")>>
\* if (!(wrapper())) { doWork(); }
tParenNot ==
    <<Stmt("IfStatement", ""), Prefix("!", 1, "expression"),
      N("ParenthesizedExpression", "", 2, "operand", "", FALSE), CallNode(3, "expression"),
      Wrapper(4, "callee")>>
\* const on = !!wrapper();
tNotNot ==
    <<Stmt("VariableDeclaration", "on"), Prefix("!", 1, "initializer"), Prefix("!", 2, "operand"),
      CallNode(3, "operand"), Wrapper(4, "callee")>>
\* if (wrapper() && !wrapper()) { doWork(); }
tAnd ==
    <<Stmt("IfStatement", ""), N("BinaryExpression", "&&", 1, "expression", "", FALSE),
      CallNode(2, "left"), Wrapper(3, "callee"),
      Prefix("!", 2, "right"), CallNode(5, "operand"), Wrapper(6, "callee")>>
\* log(wrapper());
tCallArg ==
    <<Stmt("ExpressionStatement", ""), CallNode(1, "expression"), Callee(2, "log"),
      CallNode(2, "argument"), Wrapper(4, "callee")>>
\* register(wrapper);
tArg ==
    <<Stmt("ExpressionStatement", ""), CallNode(1, "expression"), Callee(2, "register"),
      Wrapper(2, "argument")>>
\* if (!register(wrapper)) { doWork(); }
tNotArg ==
    <<Stmt("IfStatement", ""), Prefix("!", 1, "expression"), CallNode(2, "operand"),
      Callee(3, "register"), Wrapper(3, "argument")>>

Templates == {tAssign, tCall, tBind, tIfNot, tPlus, tParenNot, tNotNot, tAnd,
              tCallArg, tArg, tNotArg}
Files == {"src/a.ts", "src/b.ts"}

\* the nodes of template t, placed in file f after `base` earlier nodes
Place(t, f, base) ==
    [i \in 1..Len(t) |->
        [kind |-> t[i].kind, op |-> t[i].op,
         parent |-> IF t[i].parent = 0 THEN 0 ELSE t[i].parent + base,
         role |-> t[i].role, text |-> t[i].text, ref |-> t[i].ref,
         file |-> f, live |-> TRUE]]

RECURSIVE Build(_, _)
Build(stmts, base) ==
    IF stmts = <<>> THEN <<>>
    ELSE LET here == Place(Head(stmts)[1], Head(stmts)[2], base)
         IN  here \o Build(Tail(stmts), base + Len(here))

\* The declaration in src/ks.ts and up to MaxStmts statements that mention it.
\* No reference stands inside a subtree that another reference's replacement
\* removes (as in `register(wrapper, wrapper())`).
Layouts ==
    {Build(<<<<tDecl, "src/ks.ts">>>> \o stmts, 0) : stmts \in SeqsUpTo(Templates \X Files, MaxStmts)}

(***************************************************************************)
(* Tree queries (ts-morph Node)                                            *)
(***************************************************************************)
\* node.getParent() as an index, 0 when the parent is the source file
getParent(ns, n) == ns[n].parent

\* node.getParentIfKind(kind): the parent's index, 0 when of another kind
getParentIfKind(ns, n, kind) ==
    LET p == getParent(ns, n)
    IN  IF p # 0 /\ ns[p].kind = kind THEN p ELSE 0

RECURSIVE IsAncestorOf(_, _, _)
\* nodeB.getAncestors().includes(nodeA)
IsAncestorOf(ns, nodeA, nodeB) ==
    LET p == getParent(ns, nodeB)
    IN  p # 0 /\ (p = nodeA \/ IsAncestorOf(ns, nodeA, p))

\* the live child of n in the given role, 0 when there is none
Child(ns, n, role) ==
    LET cs == {c \in 1..Len(ns) : ns[c].live /\ ns[c].parent = n /\ ns[c].role = role}
    IN  IF cs = {} THEN 0 ELSE CHOOSE c \in cs : TRUE

RECURSIVE getText(_, _)
\* node.getText()
getText(ns, n) ==
    LET k == ns[n].kind
        sub(role) == IF Child(ns, n, role) = 0 THEN "" ELSE getText(ns, Child(ns, n, role))
    IN  CASE k = "Identifier" -> ns[n].text
          [] k = "TrueKeyword" -> "true"
          [] k = "FalseKeyword" -> "false"
          [] k = "CallExpression" -> sub("callee") \o "(" \o sub("argument") \o ")"
          [] k = "PrefixUnaryExpression" -> ns[n].op \o sub("operand")
          [] k = "ParenthesizedExpression" -> "(" \o sub("expression") \o ")"
          [] k = "BinaryExpression" -> sub("left") \o " " \o ns[n].op \o " " \o sub("right")
          [] k = "ExpressionStatement" -> sub("expression") \o ";"
          [] k = "VariableDeclaration" ->
                "const " \o ns[n].text \o " = " \o sub("initializer") \o ";"
          [] k = "IfStatement" -> "if (" \o sub("expression") \o ") { doWork(); }"
          [] k = "FunctionDeclaration" ->
                "function " \o sub("name") \o "() { return KS.isActivated(); }"

\* ksDecl.findReferences() flattened: the live identifiers bound to the
\* declaration, in document order
RECURSIVE References(_, _)
References(ns, i) ==
    IF i > Len(ns) THEN <<>>
    ELSE (IF ns[i].live /\ ns[i].ref THEN <<i>> ELSE <<>>) \o References(ns, i + 1)

(***************************************************************************)
(* replaceFunCallWithFalse                                                 *)
(***************************************************************************)
\* Mutant: the replacement is computed and never applied to the tree
replaceWithText_Dropped(ns, n, text) == ns

\* node.replaceWithText(text) for text 'true' or 'false': a literal takes
\* the node's place and the node's descendants are forgotten
replaceWithText(ns, n, text) ==
    [i \in 1..Len(ns) |->
        IF i = n
        THEN [ns[i] EXCEPT !.kind = IF text = "true" THEN "TrueKeyword" ELSE "FalseKeyword",
                           !.op = "", !.text = text, !.ref = FALSE]
        ELSE IF IsAncestorOf(ns, n, i) THEN [ns[i] EXCEPT !.live = FALSE]
        ELSE ns[i]]

\* "not a function call (e.g. declaration), skip":
\* parent?.getKind() === SyntaxKind.CallExpression
ParentIsCall(ns, refNode) ==
    getParent(ns, refNode) # 0 /\ ns[getParent(ns, refNode)].kind = "CallExpression"

\* Mutant: any prefix operator is taken for a negation
IsNegation_AnyPrefix(ns, negation) == negation # 0

\* negation?.getOperatorToken() === SyntaxKind.ExclamationToken
IsNegation(ns, negation) == negation # 0 /\ ns[negation].op = "!"

\* workList.add(newParent)
AddNode(workList, newParent) == workList \cup {newParent}

\* Mutant: refFiles kept as an array, one push per reference
AddFile_Array(refFiles, refFile) == Append(refFiles, refFile)

\* refFiles.add(refFile), refFiles being a Set spread into an array at the end
AddFile(refFiles, refFile) ==
    IF \E i \in 1..Len(refFiles) : refFiles[i] = refFile THEN refFiles
    ELSE Append(refFiles, refFile)

EmptyOutcome == [workList |-> {}, refFiles |-> <<>>]

\* the body of the forEach over the references; st is [ns, workList, refFiles]
VisitReference(st, refNode) ==
    IF ~ParentIsCall(st.ns, refNode) THEN st
    ELSE LET parent == getParent(st.ns, refNode)
             refFile == st.ns[refNode].file
             negation == getParentIfKind(st.ns, parent, "PrefixUnaryExpression")
             target == IF IsNegation(st.ns, negation) THEN negation ELSE parent
             text == IF IsNegation(st.ns, negation) THEN "true" ELSE "false"
             newParent == getParent(st.ns, target)
             ns2 == replaceWithText(st.ns, target, text)
         IN  IF newParent # 0
             THEN [ns |-> ns2, workList |-> AddNode(st.workList, newParent),
                   refFiles |-> AddFile(st.refFiles, refFile)]
             ELSE [st EXCEPT !.ns = ns2]

RECURSIVE VisitReferences(_, _)
VisitReferences(st, refs) ==
    IF refs = <<>> THEN st
    ELSE VisitReferences(VisitReference(st, Head(refs)), Tail(refs))

replaceFunCallWithFalse(ns) ==
    VisitReferences([ns |-> ns, workList |-> {}, refFiles |-> <<>>], References(ns, 1))

(***************************************************************************)
(* State machines                                                          *)
(***************************************************************************)
\* the project of the clock specification
ClockProject == <<KsFile(<<fArgDate, fNewYear>>), FlagsFile, PlainFile, DocFile>>
\* the tree the replacement variables hold while discovery runs
IdleNodes == Build(<<<<tDecl, "src/ks.ts">>>>, 0)

\* Discovery over every project, the clock standing at the load time
Init ==
    /\ now = LoadTime
    /\ defaultDate = DefaultDateAt(now)
    /\ project \in Projects
    /\ options \in AllOptions
    /\ result = EmptyResult
    /\ threshold = defaultDate
    /\ callTime = now
    /\ diagnostics = <<>>
    /\ raised = FALSE
    /\ called = FALSE
    /\ nodes = IdleNodes
    /\ before = IdleNodes
    /\ outcome = EmptyOutcome
    /\ passes = 0

\* Discovery in one project while the clock runs
InitClock ==
    /\ now = LoadTime
    /\ defaultDate = DefaultDateAt(now)
    /\ project = ClockProject
    /\ options \in AllOptions
    /\ result = EmptyResult
    /\ threshold = defaultDate
    /\ callTime = now
    /\ diagnostics = <<>>
    /\ raised = FALSE
    /\ called = FALSE
    /\ nodes = IdleNodes
    /\ before = IdleNodes
    /\ outcome = EmptyOutcome
    /\ passes = 0

\* Replacement over every layout of references
InitReplace ==
    /\ now = LoadTime
    /\ defaultDate = DefaultDateAt(now)
    /\ project = ClockProject
    /\ options = Options(None, None, None)
    /\ result = EmptyResult
    /\ threshold = defaultDate
    /\ callTime = now
    /\ diagnostics = <<>>
    /\ raised = FALSE
    /\ called = FALSE
    /\ nodes \in Layouts
    /\ before = nodes
    /\ outcome = EmptyOutcome
    /\ passes = 0

\* the host clock advances between calls
Tick ==
    /\ now < LoadTime + MaxTicks * ClockStep
    /\ now' = now + ClockStep
    /\ UNCHANGED <<defaultDate, project, options, result, threshold, callTime,
                   diagnostics, raised, called>>
    /\ UNCHANGED replVars

\* one call of findKSDeclaration(project, options)
FindKSDeclaration ==
    /\ LET r == findKSDeclaration(project, options, defaultDate)
       IN  /\ result' = r.result
           /\ threshold' = r.threshold
           /\ diagnostics' = r.diagnostics
           /\ raised' = r.raised
    /\ callTime' = now
    /\ called' = TRUE
    /\ UNCHANGED <<now, defaultDate, project, options>>
    /\ UNCHANGED replVars

\* one call of replaceFunCallWithFalse(ksDecl)
ReplaceFunCallWithFalse ==
    /\ passes < MaxPasses
    /\ LET r == replaceFunCallWithFalse(nodes)
       IN  /\ nodes' = r.ns
           /\ outcome' = [workList |-> r.workList, refFiles |-> r.refFiles]
    /\ before' = nodes
    /\ passes' = passes + 1
    /\ UNCHANGED findVars

(***************************************************************************)
(* Specifications                                                          *)
(***************************************************************************)
Next == FindKSDeclaration
Spec == Init /\ [][Next]_vars

NextClock == Tick \/ FindKSDeclaration
SpecClock == InitClock /\ [][NextClock]_vars

NextReplace == ReplaceFunCallWithFalse
SpecReplace == InitReplace /\ [][NextReplace]_vars

(***************************************************************************)
(* Properties of discovery                                                 *)
(***************************************************************************)
DeclAt(h) == project[h[1]].funDecls[h[2]]
InResult(h) == \E i \in 1..Len(result.ksDecls) : result.ksDecls[i] = h

\* the declarations of the files the call looks into, as handles
KeptFiles == SelectFiles(project, options.ksFilePath).ksFiles
VisitedHandles ==
    {<<KeptFiles[k], di>> : k \in 1..Len(KeptFiles), di \in 1..MaxDecls + Len(FlagsDecls)}
        \cap {h \in (1..Len(project)) \X (1..MaxDecls + Len(FlagsDecls)) :
                h[2] <= Len(project[h[1]].funDecls)}
Candidates == {h \in VisitedHandles : StructureMatches(DeclAt(h))}

\* The graduation date of a declaration: the second argument when it parses
\* as a date, otherwise the first date found in the comments.
GraduationDate(funDecl) ==
    LET c == Head(funDecl.returns).expr
        fromArg == IF Len(c.args) >= 2 THEN DateParse(c.args[2]) ELSE InvalidDate
        fromComments ==
            LET ds == {i \in 1..Len(funDecl.comments) : ~DateParse(funDecl.comments[i]).nan}
            IN  IF ds = {} THEN InvalidDate
                ELSE DateParse(funDecl.comments[CHOOSE i \in ds : \A j \in ds : i <= j])
    IN  IF ~fromArg.nan THEN fromArg ELSE fromComments

\* the identifier of a candidate: the first argument without its quotes
Identifier(funDecl) ==
    LET c == Head(funDecl.returns).expr
    IN  IF Len(c.args) >= 1 THEN Some(SubSeq(c.args[1], 2, Len(c.args[1]) - 1)) ELSE None

ScanMode == called /\ ~raised /\ ~Truthy(options.targetId)
TargetedMode == called /\ ~raised /\ Truthy(options.targetId)

\* C1: in scan mode a candidate is returned iff its identifier is a valid
\* UUID, a graduation date resolves for it, and that date is strictly
\* earlier than the threshold.
C1_ScanSelection ==
    ScanMode =>
        \A h \in Candidates :
            InResult(h) <=>
                /\ IsSome(Identifier(DeclAt(h)))
                /\ uuidValidate(Val(Identifier(DeclAt(h))))
                /\ ~GraduationDate(DeclAt(h)).nan
                /\ ~threshold.nan
                /\ GraduationDate(DeclAt(h)).t < threshold.t

\* a scan returned one candidate and left out valid-UUID candidates whose
\* date is the threshold itself, later than it, or missing
C1_Witness ==
    /\ ScanMode
    /\ \E h \in Candidates : InResult(h)
    /\ \E h \in Candidates :
          ~InResult(h) /\ GraduationDate(DeclAt(h)) = threshold
    /\ \E h \in Candidates :
          ~InResult(h) /\ ~GraduationDate(DeclAt(h)).nan
                       /\ GraduationDate(DeclAt(h)).t > threshold.t
    /\ \E h \in Candidates :
          /\ ~InResult(h) /\ GraduationDate(DeclAt(h)).nan
          /\ IsSome(Identifier(DeclAt(h))) /\ uuidValidate(Val(Identifier(DeclAt(h))))

\* C2 as stated: whenever a targetId is given, whatever string it is, a
\* candidate is returned iff its identifier equals targetId.
C2_AnyTargetId ==
    (called /\ ~raised /\ IsSome(options.targetId)) =>
        \A h \in Candidates : InResult(h) <=> Identifier(DeclAt(h)) = options.targetId

\* C2 amended: whenever a non-empty targetId is given, a candidate is
\* returned iff its identifier equals targetId; date and UUID validity play
\* no part.
C2_TargetedSelection ==
    TargetedMode =>
        \A h \in Candidates : InResult(h) <=> Identifier(DeclAt(h)) = options.targetId

\* a targeted call returned a candidate whose identifier is no UUID, or one
\* whose date is not before the threshold
C2_Witness ==
    /\ TargetedMode
    /\ \E h \in Candidates :
          /\ InResult(h)
          /\ \/ ~uuidValidate(Val(Identifier(DeclAt(h))))
             \/ ~DateLess(GraduationDate(DeclAt(h)), threshold)

UnresolvableHint ==
    Truthy(options.ksFilePath) /\ FilesAt(project, Val(options.ksFilePath)) = {}

\* C6: a file hint the project cannot resolve is reported on the diagnostics
\* channel, raises nothing, and yields empty declaration and identifier
\* lists, in both modes.
C6_UnresolvedHint ==
    (called /\ UnresolvableHint) =>
        /\ ~raised
        /\ diagnostics # <<>>
        /\ result.ksDecls = <<>>
        /\ result.guids = <<>>

\* a call with an unresolvable hint has returned, in a project whose scan
\* would have found a declaration
C6_Witness ==
    /\ called
    /\ UnresolvableHint
    /\ VisitFiles(EmptyResult, project, FilterFiles(project, 1), options.targetId,
                  threshold).ksDecls # <<>>

\* C7: the declarations and the identifiers returned have the same length,
\* and the i-th identifier is the one extracted from the i-th declaration.
C7_IndexAligned ==
    /\ Len(result.ksDecls) = Len(result.guids)
    /\ \A i \in 1..Len(result.ksDecls) :
          Some(result.guids[i]) = Identifier(DeclAt(result.ksDecls[i]))

\* a call returned several declarations with different identifiers
C7_Witness ==
    /\ called
    /\ \E i, j \in 1..Len(result.guids) : result.guids[i] # result.guids[j]

\* C8 as stated: a returned function has a single return statement, standing
\* in the function's own body, whose expression calls a member named
\* isActivated.
C8_SingleReturn ==
    called =>
        \A i \in 1..Len(result.ksDecls) :
            LET f == DeclAt(result.ksDecls[i])
            IN  /\ Len(f.returns) = 1
                /\ f.returns[1].where = "body"
                /\ f.returns[1].expr.callee = Member(KS_ACTIVATED_METHOD)

\* C9 as stated: without a thresholdDate the call compares against the clock
\* at the call minus 180 days.
C9_ThresholdAtCall ==
    (called /\ ~IsSome(options.thresholdDate)) => threshold = Day(callTime - DefaultDays)

(***************************************************************************)
(* Properties of replacement                                               *)
(***************************************************************************)
\* the references the last pass started from
RefsBefore == {r \in 1..Len(before) : before[r].live /\ before[r].ref}

\* a call site: the reference is the function invoked by its parent call
CallSites ==
    {r \in RefsBefore :
        /\ before[r].parent # 0
        /\ before[before[r].parent].kind = "CallExpression"
        /\ before[r].role = "callee"}
NonCallRefs == RefsBefore \ CallSites

\* the statement a node belongs to
RECURSIVE Top(_, _)
Top(ns, n) == IF ns[n].parent = 0 THEN n ELSE Top(ns, ns[n].parent)

\* the logical negation a call is the operand of, 0 when there is none
NegationOf(call) ==
    LET up == before[call].parent
    IN  IF up # 0 /\ before[up].kind = "PrefixUnaryExpression" /\ before[up].op = "!"
        THEN up ELSE 0

Literal(ns, n, kind) ==
    ns[n].live /\ ns[n].kind = kind /\ \A c \in 1..Len(ns) : ns[c].parent = n => ~ns[c].live

\* C3: a negated call site is replaced, negation included, by the literal
\* true; any other call site has its invocation alone replaced by false.
C3_NegationLaw ==
    passes >= 1 =>
        \A r \in CallSites :
            LET call == before[r].parent
                neg == NegationOf(call)
            IN  IF neg # 0
                THEN /\ Literal(nodes, neg, "TrueKeyword")
                     /\ nodes[before[neg].parent] = before[before[neg].parent]
                ELSE /\ Literal(nodes, call, "FalseKeyword")
                     /\ nodes[before[call].parent] = before[before[call].parent]

\* a pass turned `if (!wrapper()) { doWork(); }` into `if (true) { doWork(); }`
\* and `const x = wrapper();` into `const x = false;`
C3_Witness ==
    /\ passes = 1
    /\ \E r \in CallSites :
          /\ getText(before, Top(before, r)) = "if (!wrapper()) { doWork(); }"
          /\ getText(nodes, Top(before, r)) = "if (true) { doWork(); }"
    /\ \E r \in CallSites :
          /\ getText(before, Top(before, r)) = "const x = wrapper();"
          /\ getText(nodes, Top(before, r)) = "const x = false;"

\* the nodes recorded for the call sites: the parent of what was replaced
CallSiteParents ==
    {before[IF NegationOf(before[r].parent) # 0 THEN NegationOf(before[r].parent)
            ELSE before[r].parent].parent : r \in CallSites}
CallSiteFiles == {before[r].file : r \in CallSites}
RefFileSet == {outcome.refFiles[i] : i \in 1..Len(outcome.refFiles)}

\* C4 as stated: a reference that is not the function invoked by a call
\* (the declaration's name, `const f = wrapper;`, the wrapper passed as an
\* argument) keeps its statement's text, and adds neither a node nor a file
\* to the outcome.
C4_NonCallUntouched ==
    passes >= 1 =>
        /\ \A r \in NonCallRefs :
              /\ nodes[r] = before[r]
              /\ getText(nodes, Top(before, r)) = getText(before, Top(before, r))
        /\ outcome.workList \subseteq CallSiteParents
        /\ RefFileSet \subseteq CallSiteFiles

\* C5: a second pass over the same declaration, with no edit in between,
\* returns an empty node set and an empty file list and changes no node.
C5_Idempotent ==
    passes >= 2 => (outcome = EmptyOutcome /\ nodes = before)

\* a second pass ran on a tree in which the first one had replaced a call
\* and had left a non-call reference behind
C5_Witness ==
    /\ passes = 2
    /\ \E n \in 1..Len(nodes) : nodes[n].live /\ nodes[n].kind \in {"TrueKeyword", "FalseKeyword"}
    /\ \E r \in RefsBefore : before[r].role = "initializer"

\* the references the pass works on: those whose parent is an invocation
Processed ==
    {r \in RefsBefore : before[r].parent # 0 /\ before[before[r].parent].kind = "CallExpression"}
ReplacedFor(r) ==
    IF NegationOf(before[r].parent) # 0 THEN NegationOf(before[r].parent) ELSE before[r].parent

\* C10: the file list holds, once each, exactly the files of the processed
\* references; the node set holds exactly the parents of the replaced nodes;
\* every node of the set has a child that the pass turned into a literal.
C10_Bookkeeping ==
    passes >= 1 =>
        /\ RefFileSet = {before[r].file : r \in Processed}
        /\ Cardinality(RefFileSet) = Len(outcome.refFiles)
        /\ outcome.workList = {before[ReplacedFor(r)].parent : r \in Processed}
        /\ \A n \in outcome.workList :
              /\ nodes[n].live
              /\ \E c \in 1..Len(nodes) :
                    /\ nodes[c].parent = n
                    /\ nodes[c].live
                    /\ nodes[c].kind \in {"TrueKeyword", "FalseKeyword"}
                    /\ before[c].kind \notin {"TrueKeyword", "FalseKeyword"}

\* a pass replaced more call sites than it recorded nodes and files: two
\* replaced nodes share a parent, two call sites share a file
C10_Witness ==
    /\ passes = 1
    /\ Cardinality(Processed) > Cardinality(outcome.workList)
    /\ Cardinality(Processed) > Len(outcome.refFiles)
    /\ Len(outcome.refFiles) >= 2

====
